---- MODULE Spec2Model ----
(***************************************************************************)
(* Model of the sentence-embedding store (database.py, EmbeddingDatabase)  *)
(* and of the similarity index built over it (search_index.py,             *)
(* SimilaritySearchIndex), together with the on-disk index artifacts.      *)
(*                                                                         *)
(* float32 values are modelled by small integers (their inner products are *)
(* exact); an embedding is a sequence of them.  Python's None is the empty *)
(* sequence and a present value x is <<x>>.                                *)
(***************************************************************************)
EXTENDS Integers, Sequences, FiniteSets, TLC

\* ---------------------------------------------------------------- bounds
\* rows the sentences table may ever receive (caps the AUTOINCREMENT counter)
MaxSentences == 2
\* rows the documents table may ever receive
MaxDocuments == 2
MaxIvfSentences == 10
\* vectors an index extended by add_vectors holds at most
MaxIndexVectors == 3
\* rows the sentences table may ever receive through ingestion
MaxIngestSentences == 3

\* ---------------------------------------------------------------- inputs
Paths == {"p1", "p2"}
Filenames == {"f1", "f2"}
Texts == {"s"}
Positions == {0, 1}
\* embeddings handed to the store: two of length 2, one of length 1
Vectors == {<<1, 0>>, <<0, 1>>, <<1>>}
\* inputs of the full system (store + index): narrower, the index multiplies them
IdxPaths == {"p1"}
IdxFilenames == {"f1"}
IdxPositions == {0}
IdxThresholds == {0}
SearchVectors == {<<1, 0>>, <<0, 1>>}
SearchDocuments == {1, 2}
SearchQueries == {<<1, 0>>, <<1>>}
SearchKs == {1, 2}
SearchTypes == {"flat", "ivf"}
IvfVectors == {<<1, 0>>}
IvfQueries == {<<1, 0>>, <<0, 1>>}
IvfKs == {1}
IdxVectors == {<<1, 0>>, <<1>>}
IndexTypes == {"flat", "ivf", "hnsw"}
Ks == {2}
Thresholds == {0, 1}
Queries == {<<1, 0>>, <<1>>}
Builds == {"build_index", "rebuild_index"}
\* add_vectors: the sentence ids and the rows handed over (as many or not)
AddIds == {<<2>>, <<1, 2>>}
AddEmbeddings == {<<<<1, 0>>>>, <<<<0, 1>>, <<1, 0>>>>, <<<<1>>>>}
AddFaults == {"none", "mapping_open"}
\* inputs of ingestion
\* sentences a file yields
FileLengths == {0, 1, 2, 3}
BatchSizes == {2}
DirectoryLengths == {0, 1, 2}
DirectoryFileLengths == {1}
DirectoryFaults == {"none", "add_document"}

None == <<>>
Some(x) == <<x>>

VARIABLES
    documents,      \* table documents: set of rows [id, filename, file_path]
    doc_seq,        \* sqlite_sequence row of documents (AUTOINCREMENT high-water mark)
    sentences,      \* table sentences: set of rows [id, document_id, sentence_text, sentence_index, embedding]
    sent_seq,       \* sqlite_sequence row of sentences
    index,          \* self.index: None or Some(the FAISS index)
    id_mapping,     \* self.id_mapping: function ordinal -> sentence id
    dimension,      \* self.dimension: None or Some(d)
    index_file,     \* file at index_path: [state |-> "absent" | "corrupt" | "ok", ...]
    mapping_file,   \* file at mapping_path: [state |-> "absent" | "corrupt" | "ok", ...]
    op,             \* the operation that ran last, with its arguments
    ret,            \* what it returned
    log,            \* the warning or error it logged ("" when none)
    assigned,       \* history: every sentence id ever assigned by the store
    cleared,        \* history: TRUE from clear_database until the next sentence insert
    saved,          \* history: Some(what save_index last wrote in full) while both files still hold it
    threads         \* calls in flight when callers run concurrently: [add, build]

store_vars == <<documents, doc_seq, sentences, sent_seq>>
index_vars == <<index, id_mapping, dimension>>
disk_vars == <<index_file, mapping_file>>
vars == <<documents, doc_seq, sentences, sent_seq, index, id_mapping, dimension,
          index_file, mapping_file, op, ret, log, assigned, cleared, saved, threads>>

\* ------------------------------------------------------- numpy <-> BLOB
\* the four little-endian bytes of a 32-bit word (two's complement)
WordBytes(c) ==
    <<c % 256, (c \div 256) % 256, (c \div 65536) % 256, (c \div 16777216) % 256>>

BytesWord(b) ==
    b[1] + 256 * b[2] + 65536 * b[3]
      + 16777216 * (IF b[4] >= 128 THEN b[4] - 256 ELSE b[4])

\* embedding.tobytes(): the words of the array, one after the other
tobytes(v) ==
    [i \in 1..(4 * Len(v)) |-> WordBytes(v[((i - 1) \div 4) + 1])[((i - 1) % 4) + 1]]

\* np.frombuffer(blob, dtype=np.float32): one value per four bytes
frombuffer(blob) ==
    [i \in 1..(Len(blob) \div 4) |-> BytesWord(SubSeq(blob, 4 * i - 3, 4 * i))]

\* ---------------------------------------------------------------- store
SetMax(S) == CHOOSE x \in S : \A y \in S : y <= x

\* faulty variant: INTEGER PRIMARY KEY without AUTOINCREMENT (largest live id + 1)
NextSentenceIdReuse == IF sentences = {} THEN 1 ELSE SetMax({s.id : s \in sentences}) + 1
\* AUTOINCREMENT: one more than the largest id the table ever held
NextSentenceId == sent_seq + 1

NextDocumentId == doc_seq + 1

\* ORDER BY id over a set of rows
RECURSIVE OrderById(_)
OrderById(rows) ==
    IF rows = {} THEN <<>>
    ELSE LET r == CHOOSE x \in rows : \A y \in rows : x.id <= y.id
         IN  <<r>> \o OrderById(rows \ {r})

RECURSIVE OrderByIdDesc(_)
OrderByIdDesc(rows) ==
    IF rows = {} THEN <<>>
    ELSE LET r == CHOOSE x \in rows : \A y \in rows : x.id >= y.id
         IN  <<r>> \o OrderByIdDesc(rows \ {r})

\* faulty variant: the query without its ORDER BY, rows coming newest first
EmbeddingRowsUnordered(rows) ==
    LET o == OrderByIdDesc({s \in rows : s.embedding # None})
    IN  [i \in 1..Len(o) |-> [id |-> o[i].id, embedding |-> frombuffer(o[i].embedding[1])]]
\* SELECT id, embedding ... WHERE embedding IS NOT NULL ORDER BY id, rows decoded
EmbeddingRows(rows) ==
    LET o == OrderById({s \in rows : s.embedding # None})
    IN  [i \in 1..Len(o) |-> [id |-> o[i].id, embedding |-> frombuffer(o[i].embedding[1])]]

\* the effective get_all_embeddings (the second definition shadows the first)
AllEmbeddings == EmbeddingRows(sentences)

Stats ==
    [documents  |-> Cardinality(documents),
     sentences  |-> Cardinality(sentences),
     embeddings |-> Cardinality({s \in sentences : s.embedding # None})]

\* faulty variant: the table without UNIQUE(file_path)
InsertDocumentNoUnique(filename, file_path) ==
    documents \cup {[id |-> NextDocumentId, filename |-> filename, file_path |-> file_path]}
\* rows of documents after the INSERT that the UNIQUE(file_path) constraint guards
InsertDocument(filename, file_path) ==
    IF \E d \in documents : d.file_path = file_path
    THEN documents
    ELSE documents \cup {[id |-> NextDocumentId, filename |-> filename, file_path |-> file_path]}

add_document(filename, file_path) ==
    /\ doc_seq < MaxDocuments \/ \E d \in documents : d.file_path = file_path
    /\ documents' = InsertDocument(filename, file_path)
    /\ IF documents' # documents
       THEN /\ doc_seq' = NextDocumentId
            /\ ret' = NextDocumentId                      \* cursor.lastrowid
       ELSE /\ doc_seq' = doc_seq                         \* IntegrityError
            /\ ret' = (CHOOSE d \in documents : d.file_path = file_path).id
    /\ op' = [name |-> "add_document", filename |-> filename, file_path |-> file_path]
    /\ log' = ""
    /\ UNCHANGED <<threads, sentences, sent_seq, index_vars, disk_vars, assigned, cleared, saved>>

add_sentence_embedding(document_id, sentence_text, sentence_index, embedding) ==
    /\ sentences' = sentences \cup
           {[id |-> NextSentenceId, document_id |-> document_id,
             sentence_text |-> sentence_text, sentence_index |-> sentence_index,
             embedding |-> Some(tobytes(embedding))]}
    /\ sent_seq' = NextSentenceId
    /\ assigned' = assigned \cup {NextSentenceId}
    /\ cleared' = FALSE
    /\ op' = [name |-> "add_sentence_embedding", embedding |-> embedding]
    /\ ret' = None
    /\ log' = ""
    /\ UNCHANGED <<threads, documents, doc_seq, index_vars, disk_vars, saved>>

get_all_embeddings ==
    /\ op' = [name |-> "get_all_embeddings"]
    /\ ret' = AllEmbeddings
    /\ log' = ""
    /\ UNCHANGED <<threads, store_vars, index_vars, disk_vars, assigned, cleared, saved>>

get_stats ==
    /\ op' = [name |-> "get_stats"]
    /\ ret' = Stats
    /\ log' = ""
    /\ UNCHANGED <<threads, store_vars, index_vars, disk_vars, assigned, cleared, saved>>

\* faulty variant: clear_database without DELETE FROM sentences
SentencesAfterClearKept == sentences
\* DELETE FROM sentences (sqlite_sequence is not touched)
SentencesAfterClear == {}

clear_database ==
    /\ sentences' = SentencesAfterClear
    /\ documents' = {}
    /\ cleared' = TRUE
    /\ op' = [name |-> "clear_database"]
    /\ ret' = None
    /\ log' = ""
    /\ UNCHANGED <<threads, doc_seq, sent_seq, index_vars, disk_vars, assigned, saved>>

\* faulty variant: LEFT JOIN, a sentence without its document still yields a row
get_sentence_by_id_left_join(sentence_id) ==
    LET rows == {s \in sentences : s.id = sentence_id}
    IN  IF rows = {} THEN None
        ELSE LET r == CHOOSE x \in rows : TRUE
                 ds == {d \in documents : d.id = r.document_id}
             IN  Some([id |-> r.id, text |-> r.sentence_text, index |-> r.sentence_index,
                       filename |-> IF ds = {} THEN "" ELSE (CHOOSE d \in ds : TRUE).filename,
                       file_path |-> IF ds = {} THEN "" ELSE (CHOOSE d \in ds : TRUE).file_path])
\* JOIN of sentences with documents WHERE s.id = sentence_id; None when no row
get_sentence_by_id(sentence_id) ==
    LET rows == {<<s, d>> \in sentences \X documents :
                     s.id = sentence_id /\ d.id = s.document_id}
    IN  IF rows = {} THEN None
        ELSE LET r == CHOOSE x \in rows : TRUE
             IN  Some([id |-> r[1].id, text |-> r[1].sentence_text,
                       index |-> r[1].sentence_index,
                       filename |-> r[2].filename, file_path |-> r[2].file_path])

\* ---------------------------------------------------------------- FAISS index
Min(a, b) == IF a < b THEN a ELSE b

RECURSIVE InnerProduct(_, _)
InnerProduct(a, b) ==
    IF a = <<>> THEN 0 ELSE a[1] * b[1] + InnerProduct(Tail(a), Tail(b))

\* nlist = min(100, len(embeddings) // 10)
NList(n) == Min(100, n \div 10)

\* the metric of the index object: IndexFlatIP scores by inner product;
\* IndexIVFFlat(quantizer, d, nlist) is given no metric and takes the library's
\* default, the squared L2 distance
MetricOf(index_type) == IF index_type = "flat" THEN "ip" ELSE "l2"

\* the index object after index.add(embeddings_matrix): codes maps the ordinals whose
\* vector is stored to that vector.  IndexFlatIP stores every vector; IndexIVFFlat
\* stores a vector in the inverted list of its nearest centroid, and with nlist = 0
\* there is no list to take it (ntotal still counts it).  With nlist = 1 the one
\* list holds every vector (more lists need more vectors than the model inserts).
NewIndex(index_type, d, matrix) ==
    LET n == Len(matrix)
        nlist == IF index_type = "ivf" THEN NList(n) ELSE 0
        stored == IF index_type = "ivf" /\ nlist = 0 THEN {} ELSE 0..(n - 1)
    IN  [variant |-> index_type, metric |-> MetricOf(index_type), d |-> d,
         nlist |-> nlist, ntotal |-> n,
         codes |-> [o \in stored |-> matrix[o + 1]]]

\* faulty variant: enumerate(sentence_ids, 1)
EnumerateIdsFromOne(sentence_ids) ==
    [i \in 1..Len(sentence_ids) |-> sentence_ids[i]]
\* id_mapping = {i: sentence_id for i, sentence_id in enumerate(sentence_ids)}
EnumerateIds(sentence_ids) ==
    [i \in 0..(Len(sentence_ids) - 1) |-> sentence_ids[i + 1]]

\* ---------------------------------------------------------------- persistence
\* ordinals of a finite set of naturals, ascending
RECURSIVE Ascending(_)
Ascending(S) ==
    IF S = {} THEN <<>>
    ELSE LET m == CHOOSE x \in S : \A y \in S : x <= y
         IN  <<m>> \o Ascending(S \ {m})

RECURSIVE Flatten(_)
Flatten(rows) == IF rows = <<>> THEN <<>> ELSE Head(rows) \o Flatten(Tail(rows))

\* faiss.write_index: header fields, then the stored ordinals and their vectors as one
\* contiguous float array
WriteIndex(ix) ==
    LET ords == Ascending(DOMAIN ix.codes)
    IN  [variant |-> ix.variant, metric |-> ix.metric, d |-> ix.d,
         nlist |-> ix.nlist, ntotal |-> ix.ntotal,
         ids |-> ords,
         xb |-> Flatten([i \in 1..Len(ords) |-> ix.codes[ords[i]]])]

\* faiss.read_index: the float array cut back into vectors of d values
ReadIndex(data) ==
    [variant |-> data.variant, metric |-> data.metric, d |-> data.d,
     nlist |-> data.nlist, ntotal |-> data.ntotal,
     codes |-> [o \in {data.ids[i] : i \in 1..Len(data.ids)} |->
                   LET i == CHOOSE j \in 1..Len(data.ids) : data.ids[j] = o
                   IN  SubSeq(data.xb, (i - 1) * data.d + 1, i * data.d)]]

\* faulty variant: the mapping pickled without the dimension
PickleDumpNoDimension(mapping, dim) ==
    LET keys == Ascending(DOMAIN mapping)
    IN  [id_mapping |-> [i \in 1..Len(keys) |-> <<keys[i], mapping[keys[i]]>>],
         dimension |-> None]
\* pickle.dump({'id_mapping': ..., 'dimension': ...}): the dict as its items
PickleDump(mapping, dim) ==
    LET keys == Ascending(DOMAIN mapping)
    IN  [id_mapping |-> [i \in 1..Len(keys) |-> <<keys[i], mapping[keys[i]]>>],
         dimension |-> dim]

PickleLoadMapping(data) ==
    [k \in {data.id_mapping[i][1] : i \in 1..Len(data.id_mapping)} |->
        (CHOOSE p \in {data.id_mapping[i] : i \in 1..Len(data.id_mapping)} : p[1] = k)[2]]

\* what can go wrong while save_index writes: nothing; the index file cannot be
\* opened; the index file is cut short; the mapping file cannot be opened; the
\* mapping file is cut short.  save_index catches and logs each of them.
Faults == {"none", "index_open", "index_partial", "mapping_open", "mapping_partial"}

Absent == [state |-> "absent"]
Corrupt == [state |-> "corrupt"]
File(data) == [state |-> "ok", data |-> data]

\* save_index: the two files and the log after it ran on (ix, mapping, dim)
save_index(ix, mapping, dim, ifile, mfile, fault) ==
    [index_file   |-> CASE fault = "index_open"    -> ifile
                        [] fault = "index_partial" -> Corrupt
                        [] OTHER                   -> File(WriteIndex(ix)),
     mapping_file |-> CASE fault \in {"index_open", "index_partial", "mapping_open"} -> mfile
                        [] fault = "mapping_partial" -> Corrupt
                        [] OTHER                   -> File(PickleDump(mapping, dim)),
     log          |-> IF fault = "none" THEN "" ELSE "save_failed"]

\* what save_index leaves in the history variable saved
SavedAfter(ix, mapping, dim, fault, old) ==
    CASE fault = "none"       -> Some([index |-> Some(ix), id_mapping |-> mapping, dimension |-> dim])
      [] fault = "index_open" -> old
      [] OTHER                -> None

\* ---------------------------------------------------------------- build_index
\* np.vstack accepts the rows only when they all have one length
SameLength(rows) == \A i, j \in 1..Len(rows) : Len(rows[i].embedding) = Len(rows[j].embedding)

\* faulty variant: the handler drops the index as the handler of load_index does
ExceptBuildReset(ix0, map0, dim0) ==
    [index |-> None, id_mapping |-> <<>>, dimension |-> None]
\* the in-memory state after the except of build_index caught what np.vstack
\* raised: nothing was assigned before, and the handler assigns nothing
ExceptBuild(ix0, map0, dim0) ==
    [index |-> ix0, id_mapping |-> map0, dimension |-> dim0]

\* build_index run on in-memory state (ix0, map0, dim0) and files (ifile, mfile):
\* the state, files, return value and log it leaves
BuildResult(ix0, map0, dim0, ifile, mfile, sv, index_type, fault) ==
    LET data == AllEmbeddings
        unchanged(r, l, dim) ==
            [index |-> ix0, id_mapping |-> map0, dimension |-> dim,
             index_file |-> ifile, mapping_file |-> mfile, saved |-> sv, ret |-> r, log |-> l]
    IN  IF data = <<>> THEN unchanged(FALSE, "no_embeddings", dim0)
        ELSE IF ~SameLength(data)
             THEN LET x == ExceptBuild(ix0, map0, dim0)
                  IN  [index |-> x.index, id_mapping |-> x.id_mapping, dimension |-> x.dimension,
                       index_file |-> ifile, mapping_file |-> mfile, saved |-> sv,
                       ret |-> FALSE, log |-> "build_failed"]
        ELSE LET sentence_ids == [i \in 1..Len(data) |-> data[i].id]
                 matrix == [i \in 1..Len(data) |-> data[i].embedding]
                 d == Len(matrix[1])
             IN  IF index_type \notin {"flat", "ivf"}
                 THEN unchanged(FALSE, "build_failed", Some(d))                \* ValueError
                 ELSE LET ix == NewIndex(index_type, d, matrix)
                          mapping == EnumerateIds(sentence_ids)
                          w == save_index(ix, mapping, Some(d), ifile, mfile, fault)
                      IN  [index |-> Some(ix), id_mapping |-> mapping, dimension |-> Some(d),
                           index_file |-> w.index_file, mapping_file |-> w.mapping_file,
                           saved |-> SavedAfter(ix, mapping, Some(d), fault, sv),
                           ret |-> TRUE, log |-> w.log]

\* save_index runs, and so can meet a fault, only in a build that gets that far
FaultsOf(index_type) ==
    IF AllEmbeddings # <<>> /\ SameLength(AllEmbeddings) /\ index_type \in {"flat", "ivf"}
    THEN Faults ELSE {"none"}

Apply(r) ==
    /\ index' = r.index
    /\ id_mapping' = r.id_mapping
    /\ dimension' = r.dimension
    /\ index_file' = r.index_file
    /\ mapping_file' = r.mapping_file
    /\ saved' = r.saved
    /\ ret' = r.ret
    /\ log' = r.log

build_index(index_type, fault) ==
    /\ Apply(BuildResult(index, id_mapping, dimension, index_file, mapping_file, saved,
                         index_type, fault))
    /\ op' = [name |-> "build_index"]
    /\ UNCHANGED <<threads, store_vars, assigned, cleared>>

\* rebuild_index: drop the in-memory index and mapping, remove both files, build again
rebuild_index(index_type, fault) ==
    /\ Apply(BuildResult(None, <<>>, dimension, Absent, Absent, None, index_type, fault))
    /\ op' = [name |-> "rebuild_index"]
    /\ UNCHANGED <<threads, store_vars, assigned, cleared>>

\* ---------------------------------------------------------------- load_index
\* load_index run on in-memory state (ix0, map0, dim0): the state, return value, log
LoadResult(ix0, map0, dim0) ==
    IF index_file.state = "absent" \/ mapping_file.state = "absent"
    THEN [index |-> ix0, id_mapping |-> map0, dimension |-> dim0,
          ret |-> FALSE, log |-> "files_missing"]
    ELSE IF index_file.state = "corrupt" \/ mapping_file.state = "corrupt"
    THEN [index |-> None, id_mapping |-> <<>>, dimension |-> None,
          ret |-> FALSE, log |-> "load_failed"]
    ELSE [index |-> Some(ReadIndex(index_file.data)),
          id_mapping |-> PickleLoadMapping(mapping_file.data),
          dimension |-> mapping_file.data.dimension,
          ret |-> TRUE, log |-> ""]

load_index ==
    LET r == LoadResult(index, id_mapping, dimension)
    IN  /\ index' = r.index
        /\ id_mapping' = r.id_mapping
        /\ dimension' = r.dimension
        /\ ret' = r.ret
        /\ log' = r.log
        /\ op' = [name |-> "load_index"]
        /\ UNCHANGED <<threads, store_vars, disk_vars, assigned, cleared, saved>>

\* ---------------------------------------------------------------- search
\* the score FAISS reports beside the ordinal -1 (-FLT_MAX): below every real score
MinScore == -(2 ^ 20)

\* faulty variant: equal scores by descending ordinal
RECURSIVE TopKTiesLast(_, _, _, _)
TopKTiesLast(codes, cands, q, k) ==
    IF k = 0 THEN <<>>
    ELSE IF cands = {} THEN <<[score |-> MinScore, idx |-> -1]>> \o TopKTiesLast(codes, cands, q, k - 1)
    ELSE LET sc(o) == InnerProduct(q, codes[o])
             best == CHOOSE o \in cands :
                        \A p \in cands : sc(o) > sc(p) \/ (sc(o) = sc(p) /\ o >= p)
         IN  <<[score |-> sc(best), idx |-> best]>> \o TopKTiesLast(codes, cands \ {best}, q, k - 1)
\* index.search(query, k): k pairs (score, ordinal), best inner product first, equal
\* scores by ascending ordinal, padded with (MinScore, -1)
RECURSIVE TopK(_, _, _, _)
TopK(codes, cands, q, k) ==
    IF k = 0 THEN <<>>
    ELSE IF cands = {} THEN <<[score |-> MinScore, idx |-> -1]>> \o TopK(codes, cands, q, k - 1)
    ELSE LET sc(o) == InnerProduct(q, codes[o])
             best == CHOOSE o \in cands :
                        \A p \in cands : sc(o) > sc(p) \/ (sc(o) = sc(p) /\ o <= p)
         IN  <<[score |-> sc(best), idx |-> best]>> \o TopK(codes, cands \ {best}, q, k - 1)

\* squared L2 distance
RECURSIVE SquaredL2(_, _)
SquaredL2(a, b) ==
    IF a = <<>> THEN 0
    ELSE (a[1] - b[1]) * (a[1] - b[1]) + SquaredL2(Tail(a), Tail(b))

\* the distance FAISS reports beside the ordinal -1 under the L2 metric (FLT_MAX)
MaxScore == 2 ^ 20

\* index.search under the L2 metric: smallest distance first, equal distances by
\* ascending ordinal, padded with (MaxScore, -1)
RECURSIVE TopKL2(_, _, _, _)
TopKL2(codes, cands, q, k) ==
    IF k = 0 THEN <<>>
    ELSE IF cands = {} THEN <<[score |-> MaxScore, idx |-> -1]>> \o TopKL2(codes, cands, q, k - 1)
    ELSE LET sc(o) == SquaredL2(q, codes[o])
             best == CHOOSE o \in cands :
                        \A p \in cands : sc(o) < sc(p) \/ (sc(o) = sc(p) /\ o <= p)
         IN  <<[score |-> sc(best), idx |-> best]>> \o TopKL2(codes, cands \ {best}, q, k - 1)

\* faulty variant: one more hit than the k asked for
NativeSearchOneMore(ix, q, k) ==
    IF ix.metric = "ip"
    THEN TopK(ix.codes, DOMAIN ix.codes, q, k + 1)
    ELSE TopKL2(ix.codes, DOMAIN ix.codes, q, k + 1)
\* self.index.search(query_embedding, k) on the index object ix
NativeSearch(ix, q, k) ==
    IF ix.metric = "ip"
    THEN TopK(ix.codes, DOMAIN ix.codes, q, k)
    ELSE TopKL2(ix.codes, DOMAIN ix.codes, q, k)

\* the native search raises on a query of another length (the wrapper asserts it)
SearchRaises(ix, q) == Len(q) # ix.d

\* faulty variant: the score taken for a distance, hits above the threshold dropped
RECURSIVE HitsAsDistance(_, _, _, _)
HitsAsDistance(raw, i, mapping, threshold) ==
    IF i > Len(raw) THEN <<>>
    ELSE LET h == raw[i]
             rest == HitsAsDistance(raw, i + 1, mapping, threshold)
         IN  IF h.idx = -1 THEN rest
             ELSE IF h.score > threshold THEN rest
             ELSE IF h.idx \notin DOMAIN mapping THEN rest
             ELSE LET info == get_sentence_by_id(mapping[h.idx])
                  IN  IF info = None THEN rest
                      ELSE <<[id |-> info[1].id, text |-> info[1].text,
                              index |-> info[1].index, filename |-> info[1].filename,
                              file_path |-> info[1].file_path,
                              similarity_score |-> h.score, rank |-> i]>> \o rest

\* the loop of search over the k raw hits: sentinel, threshold, mapping, hydration
RECURSIVE Hits(_, _, _, _)
Hits(raw, i, mapping, threshold) ==
    IF i > Len(raw) THEN <<>>
    ELSE LET h == raw[i]
             rest == Hits(raw, i + 1, mapping, threshold)
         IN  IF h.idx = -1 THEN rest
             ELSE IF h.score < threshold THEN rest
             ELSE IF h.idx \notin DOMAIN mapping THEN rest
             ELSE LET info == get_sentence_by_id(mapping[h.idx])
                  IN  IF info = None THEN rest
                      ELSE <<[id |-> info[1].id, text |-> info[1].text,
                              index |-> info[1].index, filename |-> info[1].filename,
                              file_path |-> info[1].file_path,
                              similarity_score |-> h.score, rank |-> i]>> \o rest

\* the last call on this instance was a search or get_index_stats whose lazy load
\* found nothing to load (another process may have built the files since)
AfterFailedLoad ==
    IF op.name \in {"search", "get_index_stats"}
    THEN op.lazy_load /\ index = None
    ELSE IF op.name = "build_elsewhere" THEN op.after_failed_load
    ELSE FALSE

\* faulty variant: a lazy load that failed is not tried again
LazyLoadSticky ==
    IF index = None /\ ~AfterFailedLoad
    THEN LoadResult(index, id_mapping, dimension)
    ELSE [index |-> index, id_mapping |-> id_mapping, dimension |-> dimension,
          ret |-> index # None, log |-> ""]
\* the lazy load of search and get_index_stats: load_index when no index is in
\* memory, else the in-memory state as it is
LazyLoad ==
    IF index = None
    THEN LoadResult(index, id_mapping, dimension)
    ELSE [index |-> index, id_mapping |-> id_mapping, dimension |-> dimension,
          ret |-> TRUE, log |-> ""]

\* faulty variant: the handler logs and raises again
ExceptSearchReraised == [ret |-> <<>>, log |-> "search_failed", raised |-> TRUE]
\* the except of search: the error is logged and [] returned
ExceptSearch == [ret |-> <<>>, log |-> "search_failed", raised |-> FALSE]

\* what search returns and logs on the in-memory state l that the lazy load left.
\* An IndexIVFFlat with no inverted list answers with sentinels only or raises,
\* depending on the FAISS release (empty_raises).
SearchOutcome(l, q, k, threshold, empty_raises) ==
    IF ~l.ret
    THEN [ret |-> <<>>, log |-> "index_not_loaded", raised |-> FALSE]
    ELSE LET ix == l.index[1]
         IN  IF SearchRaises(ix, q) \/ (ix.variant = "ivf" /\ ix.nlist = 0 /\ empty_raises)
             THEN ExceptSearch
             ELSE [ret |-> Hits(NativeSearch(ix, q, k), 1, l.id_mapping, threshold),
                   log |-> "", raised |-> FALSE]

\* search: a lazy load_index when no index is in memory, then the query
search(q, k, threshold, empty_raises) ==
    LET l == LazyLoad
        o == SearchOutcome(l, q, k, threshold, empty_raises)
    IN  /\ index' = l.index
        /\ id_mapping' = l.id_mapping
        /\ dimension' = l.dimension
        /\ ret' = o.ret
        /\ log' = o.log
        /\ op' = [name |-> "search", lazy_load |-> (index = None),
                  retried_load |-> (AfterFailedLoad /\ l.index # None),
                  query |-> q, k |-> k, threshold |-> threshold, raised |-> o.raised]
        /\ UNCHANGED <<threads, store_vars, disk_vars, assigned, cleared, saved>>

\* type(self.index).__name__
TypeName(ix) == IF ix.variant = "flat" THEN "IndexFlatIP" ELSE "IndexIVFFlat"

\* faulty variant: total_vectors counts the vectors the index can return
IndexStatsStored(ix, mapping, dim) ==
    [total_vectors |-> Cardinality(DOMAIN ix.codes), dimension |-> dim,
     index_type |-> TypeName(ix), mapping_size |-> Cardinality(DOMAIN mapping)]
\* the dict get_index_stats returns for the index object ix
IndexStats(ix, mapping, dim) ==
    [total_vectors |-> ix.ntotal, dimension |-> dim,
     index_type |-> TypeName(ix), mapping_size |-> Cardinality(DOMAIN mapping)]

\* returned by get_index_stats when no index can be loaded: {}
EmptyDict == [x \in {} |-> 0]

\* get_index_stats: the same lazy load, then the four figures, or {} without them
get_index_stats ==
    LET l == LazyLoad
    IN  /\ index' = l.index
        /\ id_mapping' = l.id_mapping
        /\ dimension' = l.dimension
        /\ ret' = IF ~l.ret \/ l.index = None
                  THEN EmptyDict
                  ELSE IndexStats(l.index[1], l.id_mapping, l.dimension)
        /\ log' = l.log
        /\ op' = [name |-> "get_index_stats", lazy_load |-> (index = None)]
        /\ UNCHANGED <<threads, store_vars, disk_vars, assigned, cleared, saved>>

\* self.index.add(embeddings) on the index object ix, in place: the vectors get the
\* next ordinals; an IndexIVFFlat without inverted lists counts them and stores none
AddToIndex(ix, embeddings) ==
    LET n == Len(embeddings)
        stores == ~(ix.variant = "ivf" /\ ix.nlist = 0)
        fresh == IF stores THEN ix.ntotal..(ix.ntotal + n - 1) ELSE {}
    IN  [ix EXCEPT !.ntotal = @ + n,
                   !.codes = [o \in DOMAIN ix.codes \cup fresh |->
                                 IF o \in fresh THEN embeddings[o - ix.ntotal + 1]
                                 ELSE ix.codes[o]]]

\* faulty variant: the first vector is counted before the add raises
AddRaisedPartial(ix) == [ix EXCEPT !.ntotal = @ + 1]
\* the index object after index.add raised on rows of another length: the wrapper
\* compares the row length with the index's d before it hands the rows over
AddRaised(ix) == ix

\* faulty variant: the new entries numbered from 0
ExtendMappingFromZero(mapping, start_idx, sentence_ids) ==
    [o \in DOMAIN mapping \cup 0..(Len(sentence_ids) - 1) |->
        IF o \in 0..(Len(sentence_ids) - 1) THEN sentence_ids[o + 1] ELSE mapping[o]]
\* for i, sentence_id in enumerate(sentence_ids): id_mapping[start_idx + i] = sentence_id
ExtendMapping(mapping, start_idx, sentence_ids) ==
    LET added == start_idx..(start_idx + Len(sentence_ids) - 1)
    IN  [o \in DOMAIN mapping \cup added |->
            IF o \in added THEN sentence_ids[o - start_idx + 1] ELSE mapping[o]]

\* add_vectors: the vectors appended to the index in memory, the mapping extended
\* by one entry per sentence id, both files saved again
add_vectors(sentence_ids, embeddings, fault) ==
    /\ IF index = None
       THEN /\ ret' = FALSE
            /\ log' = "index_not_initialized"
            /\ UNCHANGED <<index_vars, disk_vars, saved>>
       ELSE IF \E i \in 1..Len(embeddings) : Len(embeddings[i]) # index[1].d
       THEN /\ index' = Some(AddRaised(index[1]))         \* index.add raises
            /\ ret' = FALSE
            /\ log' = "add_failed"
            /\ UNCHANGED <<id_mapping, dimension, disk_vars, saved>>
       ELSE LET ix == AddToIndex(index[1], embeddings)
                start_idx == index[1].ntotal
                mapping == ExtendMapping(id_mapping, start_idx, sentence_ids)
                w == save_index(ix, mapping, dimension, index_file, mapping_file, fault)
            IN  /\ index' = Some(ix)
                /\ id_mapping' = mapping
                /\ dimension' = dimension
                /\ index_file' = w.index_file
                /\ mapping_file' = w.mapping_file
                /\ saved' = SavedAfter(ix, mapping, dimension, fault, saved)
                /\ ret' = TRUE
                /\ log' = w.log
    /\ op' = [name |-> "add_vectors", sentence_ids |-> sentence_ids,
              embeddings |-> embeddings]
    /\ UNCHANGED <<threads, store_vars, assigned, cleared>>

\* build_index run by another SimilaritySearchIndex on the same database and
\* paths: this instance sees only what it leaves in the two files
build_elsewhere(index_type, fault) ==
    LET r == BuildResult(None, <<>>, None, index_file, mapping_file, saved, index_type, fault)
    IN  /\ r.ret
        /\ index_file' = r.index_file
        /\ mapping_file' = r.mapping_file
        /\ saved' = r.saved
        /\ op' = [name |-> "build_elsewhere", after_failed_load |-> AfterFailedLoad]
        /\ UNCHANGED <<threads, store_vars, index_vars, ret, log, assigned, cleared>>

\* SimilaritySearchIndex.__init__ in a new process on the same database and paths
new_instance ==
    /\ index' = None
    /\ id_mapping' = <<>>
    /\ dimension' = None
    /\ op' = [name |-> "new_instance"]
    /\ ret' = None
    /\ log' = ""
    /\ UNCHANGED <<threads, store_vars, disk_vars, assigned, cleared, saved>>

\* the /clear route and the clear command: clear_database, then remove both files
clear_data ==
    /\ sentences' = SentencesAfterClear
    /\ documents' = {}
    /\ cleared' = TRUE
    /\ index_file' = Absent
    /\ mapping_file' = Absent
    /\ saved' = None
    /\ op' = [name |-> "clear_data"]
    /\ ret' = None
    /\ log' = ""
    /\ UNCHANGED <<threads, doc_seq, sent_seq, index_vars, assigned>>

\* ---------------------------------------------------------------- ingestion
\* os.path.basename(file_path)
Basename(file_path) == IF file_path = "p1" THEN "f1" ELSE "f2"

\* the i-th sentence of a file, in document order
SentenceText(i) ==
    CASE i = 1 -> "a" [] i = 2 -> "b" [] i = 3 -> "c" [] i = 4 -> "d" [] OTHER -> "e"

\* extract_sentences_from_file on a file that holds n sentences
Extract(n) == [i \in 1..n |-> SentenceText(i)]

\* the vectors the model produces
ModelVectors == {<<1, 0>>, <<0, 1>>}

\* self.model.encode: one vector of the model's dimension per sentence
Encode(text) == IF text = "a" THEN <<1, 0>> ELSE <<0, 1>>

\* embedding.tobytes() of each vector the model produces
ModelBlobs == [v \in ModelVectors |-> tobytes(v)]

\* range(0, n, batch_size)
BatchStarts(n, batch_size) == {i \in 0..(n - 1) : i % batch_size = 0}

\* add_sentence_embedding followed by processed_count += 1, on the running state
\* st = [sentences, sent_seq, count]
InsertSentence(st, document_id, sentence_text, sentence_index, embedding) ==
    [sentences |-> st.sentences \cup
                      {[id |-> st.sent_seq + 1, document_id |-> document_id,
                        sentence_text |-> sentence_text, sentence_index |-> sentence_index,
                        embedding |-> Some(ModelBlobs[embedding])]},
     sent_seq |-> st.sent_seq + 1,
     count |-> st.count + 1]

\* faulty variant: the sentence counted before its insert is tried
InsertRaisedCounted(st) == [st EXCEPT !.count = @ + 1]
\* add_sentence_embedding raised: no row, and processed_count += 1 is not reached
InsertRaised(st) == st

\* faulty variant: the position is the offset in the batch
RECURSIVE StoreBatchOffsetOnly(_, _, _, _, _, _)
StoreBatchOffsetOnly(st, document_id, batch, i, j, ins_fail) ==
    IF j >= Len(batch) THEN st
    ELSE IF (i + j) \in ins_fail THEN InsertRaised(st)
    ELSE StoreBatchOffsetOnly(
             InsertSentence(st, document_id, batch[j + 1], j, Encode(batch[j + 1])),
             document_id, batch, i, j + 1, ins_fail)
\* the inner loop of process_file over an encoded batch that starts at i, from
\* offset j on: the insert of a position in ins_fail raises and ends the batch
RECURSIVE StoreBatch(_, _, _, _, _, _)
StoreBatch(st, document_id, batch, i, j, ins_fail) ==
    IF j >= Len(batch) THEN st
    ELSE IF (i + j) \in ins_fail THEN InsertRaised(st)
    ELSE StoreBatch(
             InsertSentence(st, document_id, batch[j + 1], i + j, Encode(batch[j + 1])),
             document_id, batch, i, j + 1, ins_fail)

\* the outer loop of process_file from batch start i on: the encode of a batch
\* whose start is in enc_fail raises, the batch is skipped and the loop continues
RECURSIVE Batches(_, _, _, _, _, _, _)
Batches(st, document_id, sents, i, batch_size, enc_fail, ins_fail) ==
    IF i >= Len(sents) THEN st
    ELSE LET batch == SubSeq(sents, i + 1, Min(i + batch_size, Len(sents)))
             after == IF i \in enc_fail THEN st
                      ELSE StoreBatch(st, document_id, batch, i, 0, ins_fail)
         IN  Batches(after, document_id, sents, i + batch_size, batch_size, enc_fail, ins_fail)

\* process_file run on the store s = [documents, doc_seq, sentences, sent_seq]:
\* the store it leaves, whether it raised, and the count it returned.  The file
\* yields n sentences; add_document raises when doc_fail.
ProcessFileResult(s, file_path, n, batch_size, enc_fail, ins_fail, doc_fail) ==
    IF doc_fail
    THEN [documents |-> s.documents, doc_seq |-> s.doc_seq,
          sentences |-> s.sentences, sent_seq |-> s.sent_seq, raised |-> TRUE, count |-> 0]
    ELSE LET existing == {d \in s.documents : d.file_path = file_path}
             document_id == IF existing = {} THEN s.doc_seq + 1
                            ELSE (CHOOSE d \in existing : TRUE).id
             docs == IF existing = {}
                     THEN s.documents \cup {[id |-> document_id, filename |-> Basename(file_path),
                                             file_path |-> file_path]}
                     ELSE s.documents
             dseq == IF existing = {} THEN document_id ELSE s.doc_seq
             st == Batches([sentences |-> s.sentences, sent_seq |-> s.sent_seq, count |-> 0],
                           document_id, Extract(n), 0, batch_size, enc_fail, ins_fail)
         IN  [documents |-> docs, doc_seq |-> dseq,
              sentences |-> st.sentences, sent_seq |-> st.sent_seq,
              raised |-> FALSE, count |-> st.count]

Store == [documents |-> documents, doc_seq |-> doc_seq,
          sentences |-> sentences, sent_seq |-> sent_seq]

\* the store after an ingestion, with the history of assigned ids
ApplyStore(r) ==
    /\ documents' = r.documents
    /\ doc_seq' = r.doc_seq
    /\ sentences' = r.sentences
    /\ sent_seq' = r.sent_seq
    /\ assigned' = assigned \cup ((sent_seq + 1)..r.sent_seq)
    /\ cleared' = IF r.sent_seq > sent_seq THEN FALSE ELSE cleared

process_file(file_path, n, batch_size, enc_fail, ins_fail, doc_fail) ==
    LET r == ProcessFileResult(Store, file_path, n, batch_size, enc_fail, ins_fail, doc_fail)
    IN  /\ ApplyStore(r)
        /\ ret' = IF r.raised THEN None ELSE Some(r.count)
        /\ log' = ""
        /\ op' = [name |-> "process_file", file_path |-> file_path, n |-> n,
                  batch_size |-> batch_size, enc_fail |-> enc_fail,
                  ins_fail |-> ins_fail, raised |-> r.raised]
        /\ UNCHANGED <<threads, index_vars, disk_vars, saved>>

\* what happens to one file of a directory run: its sentence count and its fault
FileInput(n, fault) ==
    [n |-> n,
     enc_fail |-> IF fault = "encode" THEN {0} ELSE {},
     ins_fail |-> IF fault = "insert" THEN {0} ELSE {},
     doc_fail |-> fault = "add_document"]

\* results[file_path] = count, or = 0 when process_file raised
FileEntry(results, file_path, r) ==
    [q \in DOMAIN results \cup {file_path} |->
        IF q = file_path THEN (IF r.raised THEN 0 ELSE r.count) ELSE results[q]]

\* the loop of process_directory over files from the k-th on; st carries the
\* store, the results dict and the calls made so far
RECURSIVE DirectoryFrom(_, _, _, _, _)
DirectoryFrom(st, files, k, batch_size, inp) ==
    IF k > Len(files) THEN st
    ELSE LET r == ProcessFileResult(st.store, files[k], inp[k].n, batch_size,
                                    inp[k].enc_fail, inp[k].ins_fail, inp[k].doc_fail)
         IN  DirectoryFrom(
                 [store |-> [documents |-> r.documents, doc_seq |-> r.doc_seq,
                             sentences |-> r.sentences, sent_seq |-> r.sent_seq],
                  results |-> FileEntry(st.results, files[k], r),
                  calls |-> Append(st.calls,
                                   [file_path |-> files[k], raised |-> r.raised,
                                    ids |-> (st.store.sent_seq + 1)..r.sent_seq])],
                 files, k + 1, batch_size, inp)

\* process_directory over the matched files (glob over the patterns), file k
\* behaving as inp[k]
process_directory(files, batch_size, inp) ==
    LET st == DirectoryFrom([store |-> Store, results |-> EmptyDict, calls |-> <<>>],
                            files, 1, batch_size, inp)
    IN  /\ ApplyStore(st.store)
        /\ ret' = st.results
        /\ log' = IF files = <<>> THEN "no_files" ELSE ""
        /\ op' = [name |-> "process_directory", files |-> files, calls |-> st.calls]
        /\ UNCHANGED <<threads, index_vars, disk_vars, saved>>

\* ---------------------------------------------------------------- concurrent callers
\* the threads that call add_document
Callers == {1, 2}

IdleCall == [pc |-> "idle"]
IdleBuild == [pc |-> "idle"]
NoThreads == [add |-> [t \in Callers |-> IdleCall], build |-> IdleBuild]

\* a step of a thread leaves this as the last operation
ThreadStep(name) ==
    /\ op' = [name |-> name]
    /\ ret' = None
    /\ log' = ""

\* thread t enters add_document(filename, file_path); overlap notes whether the
\* other call was under way
add_document_call(t, filename, file_path) ==
    /\ threads.add[t].pc \in {"idle", "done"}
    /\ threads' = [threads EXCEPT !.add[t] =
                       [pc |-> "insert", filename |-> filename, file_path |-> file_path,
                        overlap |-> \E u \in Callers \ {t} :
                                       threads.add[u].pc \in {"insert", "select"}]]
    /\ ThreadStep("add_document_call")
    /\ UNCHANGED <<store_vars, index_vars, disk_vars, assigned, cleared, saved>>

\* faulty variant: cursor.lastrowid returned after the conflict
SelectIdLastRow(file_path) == 0
\* SELECT id FROM documents WHERE file_path = ?; fetchone()[0]
SelectId(file_path) == (CHOOSE d \in documents : d.file_path = file_path).id

\* INSERT and commit of thread t: one write transaction, which SQLite runs alone;
\* the row and lastrowid, or an IntegrityError that leads to the SELECT
add_document_insert(t) ==
    LET c == threads.add[t]
    IN  /\ c.pc = "insert"
        /\ doc_seq < MaxDocuments \/ \E d \in documents : d.file_path = c.file_path
        /\ documents' = InsertDocument(c.filename, c.file_path)
        /\ IF documents' # documents
           THEN /\ doc_seq' = NextDocumentId
                /\ threads' = [threads EXCEPT !.add[t] =
                                   [c EXCEPT !.pc = "done"] @@ [ret |-> NextDocumentId, conflict |-> FALSE]]
           ELSE /\ doc_seq' = doc_seq
                /\ threads' = [threads EXCEPT !.add[t].pc = "select"]
        /\ ThreadStep("add_document_insert")
        /\ UNCHANGED <<sentences, sent_seq, index_vars, disk_vars, assigned, cleared, saved>>

\* the SELECT of thread t after its IntegrityError
add_document_select(t) ==
    LET c == threads.add[t]
    IN  /\ c.pc = "select"
        /\ threads' = [threads EXCEPT !.add[t] =
                           [c EXCEPT !.pc = "done"] @@ [ret |-> SelectId(c.file_path), conflict |-> TRUE]]
        /\ ThreadStep("add_document_select")
        /\ UNCHANGED <<store_vars, index_vars, disk_vars, assigned, cleared, saved>>

\* a thread that runs build_index or rebuild_index statement by statement, while
\* other threads use the same SimilaritySearchIndex.  pc names the statement it
\* is about to run.
BuildSteps == {"clear", "remove", "read", "create", "add", "map", "save"}

InFlight == threads.build.pc \in BuildSteps

\* the thread enters build_index or rebuild_index; prev notes the state it found
build_call(kind, index_type) ==
    /\ ~InFlight
    /\ threads' = [threads EXCEPT !.build =
                       [pc |-> IF kind = "rebuild_index" THEN "clear" ELSE "read",
                        kind |-> kind, index_type |-> index_type,
                        prev |-> [index |-> index, id_mapping |-> id_mapping,
                                  dimension |-> dimension,
                                  index_file |-> index_file, mapping_file |-> mapping_file]]]
    /\ ThreadStep("build_call")
    /\ UNCHANGED <<store_vars, index_vars, disk_vars, assigned, cleared, saved>>

\* rebuild_index: self.index = None; self.id_mapping = {}
build_clear ==
    /\ threads.build.pc = "clear"
    /\ index' = None
    /\ id_mapping' = <<>>
    /\ threads' = [threads EXCEPT !.build.pc = "remove"]
    /\ ThreadStep("build_clear")
    /\ UNCHANGED <<store_vars, dimension, disk_vars, assigned, cleared, saved>>

\* rebuild_index: os.remove of both files
build_remove ==
    /\ threads.build.pc = "remove"
    /\ index_file' = Absent
    /\ mapping_file' = Absent
    /\ saved' = None
    /\ threads' = [threads EXCEPT !.build.pc = "read"]
    /\ ThreadStep("build_remove")
    /\ UNCHANGED <<store_vars, index_vars, assigned, cleared>>

\* build_index: get_all_embeddings, np.vstack, self.dimension = shape[1]
build_read ==
    LET data == AllEmbeddings
        b == threads.build
    IN  /\ b.pc = "read"
        /\ IF data = <<>> \/ ~SameLength(data)
           THEN /\ threads' = [threads EXCEPT !.build = [b EXCEPT !.pc = "done"] @@ [ret |-> FALSE]]
                /\ dimension' = dimension
           ELSE /\ threads' = [threads EXCEPT !.build =
                                   [b EXCEPT !.pc = "create"] @@
                                   [sentence_ids |-> [i \in 1..Len(data) |-> data[i].id],
                                    matrix |-> [i \in 1..Len(data) |-> data[i].embedding]]]
                /\ dimension' = Some(Len(data[1].embedding))
        /\ ThreadStep("build_read")
        /\ UNCHANGED <<store_vars, index, id_mapping, disk_vars, assigned, cleared, saved>>

\* build_index: self.index = faiss.IndexFlatIP(d), or the IVF index, trained;
\* the index object is published before it holds a vector
build_create ==
    LET b == threads.build
    IN  /\ b.pc = "create"
        /\ IF b.index_type \notin {"flat", "ivf"}
           THEN /\ threads' = [threads EXCEPT !.build = [b EXCEPT !.pc = "done"] @@ [ret |-> FALSE]]
                /\ index' = index
           ELSE /\ threads' = [threads EXCEPT !.build.pc = "add"]
                /\ index' = Some([NewIndex(b.index_type, dimension[1], b.matrix)
                                      EXCEPT !.ntotal = 0, !.codes = <<>>])
        /\ ThreadStep("build_create")
        /\ UNCHANGED <<store_vars, id_mapping, dimension, disk_vars, assigned, cleared, saved>>

\* build_index: self.index.add(embeddings_matrix), in place
build_add ==
    LET b == threads.build
    IN  /\ b.pc = "add"
        /\ index' = Some(NewIndex(b.index_type, dimension[1], b.matrix))
        /\ threads' = [threads EXCEPT !.build.pc = "map"]
        /\ ThreadStep("build_add")
        /\ UNCHANGED <<store_vars, id_mapping, dimension, disk_vars, assigned, cleared, saved>>

\* build_index: self.id_mapping = {i: sentence_id ...}
build_map ==
    LET b == threads.build
    IN  /\ b.pc = "map"
        /\ id_mapping' = EnumerateIds(b.sentence_ids)
        /\ threads' = [threads EXCEPT !.build.pc = "save"]
        /\ ThreadStep("build_map")
        /\ UNCHANGED <<store_vars, index, dimension, disk_vars, assigned, cleared, saved>>

\* build_index: self.save_index(); return True
build_save ==
    LET b == threads.build
        w == save_index(index[1], id_mapping, dimension, index_file, mapping_file, "none")
    IN  /\ b.pc = "save"
        /\ index # None
        /\ index_file' = w.index_file
        /\ mapping_file' = w.mapping_file
        /\ saved' = SavedAfter(index[1], id_mapping, dimension, "none", saved)
        /\ threads' = [threads EXCEPT !.build = [b EXCEPT !.pc = "done"] @@ [ret |-> TRUE]]
        /\ ThreadStep("build_save")
        /\ UNCHANGED <<store_vars, index_vars, assigned, cleared>>

\* the thread is interrupted (KeyboardInterrupt, which except Exception does not
\* catch) before the statement it was about to run
build_interrupt ==
    /\ InFlight
    /\ threads' = [threads EXCEPT !.build.pc = "interrupted"]
    /\ ThreadStep("build_interrupt")
    /\ UNCHANGED <<store_vars, index_vars, disk_vars, assigned, cleared, saved>>

\* ---------------------------------------------------------------- specification
Init ==
    /\ documents = {}
    /\ doc_seq = 0
    /\ sentences = {}
    /\ sent_seq = 0
    /\ index = None
    /\ id_mapping = <<>>
    /\ dimension = None
    /\ index_file = [state |-> "absent"]
    /\ mapping_file = [state |-> "absent"]
    /\ op = [name |-> "init"]
    /\ ret = None
    /\ log = ""
    /\ assigned = {}
    /\ cleared = FALSE
    /\ saved = None
    /\ threads = NoThreads

NextStore ==
    \/ \E f \in Filenames, p \in Paths : add_document(f, p)
    \/ /\ sent_seq < MaxSentences
       /\ \E d \in 1..MaxDocuments, t \in Texts, i \in Positions, v \in Vectors :
              add_sentence_embedding(d, t, i, v)
    \/ get_all_embeddings
    \/ get_stats
    \/ clear_database

SpecStore == Init /\ [][NextStore]_vars

\* one step of the full system; save_index may meet the faults in faults
Step(faults) ==
    \/ \E f \in IdxFilenames, p \in IdxPaths : add_document(f, p)
    \/ /\ sent_seq < MaxSentences
       /\ \E t \in Texts, i \in IdxPositions, v \in IdxVectors :
              add_sentence_embedding(1, t, i, v)
    \/ clear_database
    \/ clear_data
    \/ new_instance
    \/ \E t \in IndexTypes : \E f \in FaultsOf(t) \cap faults : build_index(t, f)
    \/ \E t \in IndexTypes : \E f \in FaultsOf(t) \cap faults : rebuild_index(t, f)
    \/ load_index
    \/ \E q \in Queries, k \in Ks, t \in IdxThresholds, e \in BOOLEAN : search(q, k, t, e)

Next == Step(Faults)

\* the full system on a disk that never fails
NextReliable == Step({"none"})

SpecReliable == Init /\ [][NextReliable]_vars

\* the engine on a disk that never fails, with its statistics and incremental adds
NextEngine ==
    \/ \E f \in IdxFilenames, p \in IdxPaths : add_document(f, p)
    \/ /\ sent_seq < MaxSentences
       /\ \E t \in Texts, i \in IdxPositions, v \in IvfVectors :
              add_sentence_embedding(1, t, i, v)
    \/ clear_database
    \/ new_instance
    \/ \E t \in SearchTypes : build_index(t, "none")
    \/ \E t \in SearchTypes : rebuild_index(t, "none")
    \/ \E q \in SearchQueries, k \in IvfKs, t \in IdxThresholds, e \in BOOLEAN :
           search(q, k, t, e)
    \/ get_index_stats
    \/ /\ IF index = None THEN TRUE ELSE index[1].ntotal < MaxSentences
       /\ \E v \in IdxVectors : add_vectors(<<1>>, <<v>>, "none")

SpecEngine == Init /\ [][NextEngine]_vars

Spec == Init /\ [][Next]_vars

\* the index built, loaded and extended by add_vectors, on a disk that can fail
\* while add_vectors saves
NextIncremental ==
    \/ \E f \in IdxFilenames, p \in IdxPaths : add_document(f, p)
    \/ /\ sent_seq < MaxSentences
       /\ \E t \in Texts, i \in IdxPositions, v \in IvfVectors :
              add_sentence_embedding(1, t, i, v)
    \/ new_instance
    \/ \E t \in IndexTypes : build_index(t, "none")
    \/ \E t \in IndexTypes : rebuild_index(t, "none")
    \/ load_index
    \/ \E q \in Queries, k \in Ks, t \in IdxThresholds : search(q, k, t, FALSE)
    \/ \E ids \in AddIds, e \in AddEmbeddings, f \in AddFaults :
           /\ IF index = None THEN TRUE
              ELSE index[1].ntotal + Len(e) <= MaxIndexVectors
           /\ add_vectors(ids, e, f)

SpecIncremental == Init /\ [][NextIncremental]_vars

\* an instance that only searches and reads statistics, beside another process
\* that builds the index files and removes them
NextLazy ==
    \/ \E f \in IdxFilenames, p \in IdxPaths : add_document(f, p)
    \/ /\ sent_seq < MaxSentences
       /\ \E t \in Texts, i \in IdxPositions, v \in IvfVectors :
              add_sentence_embedding(1, t, i, v)
    \/ \E f \in Faults : build_elsewhere("flat", f)
    \/ clear_data
    \/ \E q \in SearchQueries, k \in IvfKs, t \in IdxThresholds : search(q, k, t, FALSE)
    \/ get_index_stats

SpecLazy == Init /\ [][NextLazy]_vars

\* the search side on a disk that never fails: sentences of equal length, attached
\* to a document that exists or to one that does not, and queries of either length
NextSearch ==
    \/ \E f \in IdxFilenames, p \in IdxPaths : add_document(f, p)
    \/ /\ sent_seq < MaxSentences
       /\ \E d \in SearchDocuments, t \in Texts, i \in IdxPositions, v \in SearchVectors :
              add_sentence_embedding(d, t, i, v)
    \/ clear_database
    \/ new_instance
    \/ \E t \in SearchTypes : build_index(t, "none")
    \/ load_index
    \/ \E q \in SearchQueries, k \in SearchKs, t \in Thresholds, e \in BOOLEAN :
           search(q, k, t, e)
    \/ get_index_stats

SpecSearch == Init /\ [][NextSearch]_vars

\* a store that grows until the ivf variant gets its first inverted list
NextIvf ==
    \/ \E f \in IdxFilenames, p \in IdxPaths : add_document(f, p)
    \/ /\ sent_seq < MaxIvfSentences
       /\ \E t \in Texts, i \in IdxPositions, v \in IvfVectors :
              add_sentence_embedding(1, t, i, v)
    \/ \E t \in SearchTypes : build_index(t, "none")
    \/ \E q \in IvfQueries, k \in IvfKs, t \in Thresholds, e \in BOOLEAN :
           search(q, k, t, e)

SpecIvf == Init /\ [][NextIvf]_vars

\* ingestion of files and directories into the store
NextIngest ==
    \/ \E p \in IdxPaths, n \in FileLengths, b \in BatchSizes, d \in BOOLEAN :
           \E ef \in SUBSET BatchStarts(n, b), jf \in {{}} \cup {{x} : x \in 0..(n - 1)} :
               /\ d => (ef = {} /\ jf = {})           \* one kind of fault per call
               /\ ef # {} => jf = {}
               /\ process_file(p, n, b, ef, jf, d)
               /\ sent_seq' <= MaxIngestSentences
               /\ doc_seq' <= MaxDocuments
    \/ \E len \in DirectoryLengths, b \in BatchSizes :
           \E files \in [1..len -> Paths] :
               \E inp \in [1..len -> {FileInput(n, f) : n \in DirectoryFileLengths, f \in DirectoryFaults}] :
                   /\ process_directory(files, b, inp)
                   /\ sent_seq' <= MaxIngestSentences
                   /\ doc_seq' <= MaxDocuments
    \/ clear_database

SpecIngest == Init /\ [][NextIngest]_vars

\* two threads that call add_document on one store
NextConcurrentAdd ==
    \/ \E t \in Callers, f \in Filenames, p \in Paths : add_document_call(t, f, p)
    \/ \E t \in Callers : add_document_insert(t)
    \/ \E t \in Callers : add_document_select(t)

SpecConcurrentAdd == Init /\ [][NextConcurrentAdd]_vars

\* a build or rebuild thread, searches and inserts on the same objects
NextConcurrentBuild ==
    \/ \E f \in IdxFilenames, p \in IdxPaths : add_document(f, p)
    \/ /\ sent_seq < MaxSentences
       /\ \E t \in Texts, i \in IdxPositions, v \in IvfVectors :
              add_sentence_embedding(1, t, i, v)
    \/ \E kind \in Builds, t \in IndexTypes : build_call(kind, t)
    \/ build_clear
    \/ build_remove
    \/ build_read
    \/ build_create
    \/ build_add
    \/ build_map
    \/ build_save
    \/ build_interrupt
    \/ \E q \in IvfQueries, k \in IvfKs, t \in IdxThresholds : search(q, k, t, FALSE)

SpecConcurrentBuild == Init /\ [][NextConcurrentBuild]_vars

\* ---------------------------------------------------------------- properties
NoStats == [documents |-> 0, sentences |-> 0, embeddings |-> 0]
Clears == {"clear_database", "clear_data"}
EmbeddedIds == {s.id : s \in {x \in sentences : x.embedding # None}}

\* C1: add_document returns the id of the one document record with the given path,
\* whatever the filename; that record is kept as it is by every operation other
\* than a clear, so a second call with the same path returns the same id and there
\* is still exactly one record for the path.
C1_AddDocumentIdempotent ==
    /\ [][op'.name = "add_document" =>
            /\ Cardinality({d \in documents' : d.file_path = op'.file_path}) = 1
            /\ \A d \in documents' : d.file_path = op'.file_path => ret' = d.id
            /\ \A d \in documents : d.file_path = op'.file_path => ret' = d.id]_vars
    /\ [][op'.name \notin Clears => documents \subseteq documents']_vars

\* a second add_document for a path, under another filename, returned the first id
C1_Witness ==
    /\ op.name = "add_document"
    /\ ret = 1
    /\ doc_seq = 2
    /\ \E d \in documents : d.file_path = op.file_path /\ d.filename # op.filename

\* C2 (the claim as stated): once the store holds an embedding of length D,
\* add_sentence_embedding with a vector of another length reports a dimension
\* mismatch and leaves the counts of get_stats unchanged.
C2_DimensionEnforced ==
    [][(/\ op'.name = "add_sentence_embedding"
        /\ \E s \in sentences : Len(frombuffer(s.embedding[1])) # Len(op'.embedding))
       => (log' = "dimension_mismatch" /\ Stats' = Stats)]_vars

\* C3: get_all_embeddings returns the sentences that have an embedding, each once,
\* by strictly ascending id, and a call right after another returns the same.
C3_AllEmbeddingsOrdered ==
    /\ [](op.name = "get_all_embeddings" =>
            /\ {ret[i].id : i \in 1..Len(ret)} = EmbeddedIds
            /\ Len(ret) = Cardinality(EmbeddedIds)
            /\ \A i \in 1..(Len(ret) - 1) : ret[i].id < ret[i + 1].id)
    /\ [][(op.name = "get_all_embeddings" /\ op'.name = "get_all_embeddings")
            => ret' = ret]_vars

C3_Witness == op.name = "get_all_embeddings" /\ Len(ret) = 2

\* C4: a newly inserted sentence has an id above every id assigned before, also
\* when clear_database has emptied the table in between.
C4_IdsNeverReused ==
    [][\A n \in sentences' \ sentences : \A a \in assigned : n.id > a]_vars

\* a sentence was inserted after a clear had deleted earlier ones
C4_Witness ==
    /\ op.name = "add_sentence_embedding"
    /\ Cardinality(assigned) > Cardinality(sentences)

\* C5 (the claim as stated): a build_index that finds no embedding fails and leaves
\* no index in memory, and a search right after it ends as index-unavailable with
\* no results.
C5_EmptyBuildLeavesNoIndex ==
    /\ []((op.name = "build_index" /\ AllEmbeddings = <<>>) =>
            (ret = FALSE /\ index = None))
    /\ [][(op.name = "build_index" /\ AllEmbeddings = <<>> /\ op'.name = "search")
            => (log' = "index_not_loaded" /\ ret' = <<>>)]_vars

\* C6: right after a clear the counts are all 0, and from a clear until the next
\* sentence insert every build_index and rebuild_index fails.
C6_ClearThenBuildFails ==
    /\ op.name \in Clears => Stats = NoStats
    /\ (cleared /\ op.name \in Builds) => ret = FALSE

\* a rebuild failed after a clear although a document had been added again
C6_Witness ==
    /\ cleared
    /\ op.name = "rebuild_index"
    /\ ret = FALSE
    /\ documents # {}

\* C7: after a successful build over N embeddings the index counts N vectors and
\* id_mapping is defined on exactly 0..N-1, ordinal i mapped to the id of the
\* (i+1)-th record of get_all_embeddings (a flat index stores that record's vector
\* at ordinal i).
C7_BuildAssignsOrdinals ==
    (op.name \in Builds /\ ret = TRUE) =>
        LET data == AllEmbeddings
            N == Len(data)
        IN  /\ index # None
            /\ index[1].ntotal = N
            /\ DOMAIN id_mapping = 0..(N - 1)
            /\ \A i \in 0..(N - 1) : id_mapping[i] = data[i + 1].id
            /\ index[1].variant = "flat" =>
                   /\ DOMAIN index[1].codes = 0..(N - 1)
                   /\ \A i \in 0..(N - 1) : index[1].codes[i] = data[i + 1].embedding

C7_Witness ==
    /\ op.name = "build_index"
    /\ ret = TRUE
    /\ Len(AllEmbeddings) = 2
    /\ id_mapping[1] = 2

\* C8: a load_index that succeeds on the two files a save_index wrote in full
\* yields the index, mapping and dimension that were saved, so every query gets
\* the same ordinals and scores.
C8_SaveLoadRoundTrip ==
    (op.name = "load_index" /\ ret = TRUE /\ saved # None) =>
        /\ dimension = saved[1].dimension
        /\ id_mapping = saved[1].id_mapping
        /\ index = saved[1].index
        /\ \A q \in Queries, k \in Ks :
               Len(q) = index[1].d =>
                   TopK(index[1].codes, DOMAIN index[1].codes, q, k)
                     = TopK(saved[1].index[1].codes, DOMAIN saved[1].index[1].codes, q, k)

\* a saved two-vector flat index was loaded into an instance that held none
C8_Witness ==
    /\ op.name = "load_index"
    /\ ret = TRUE
    /\ saved # None
    /\ index[1].ntotal = 2
    /\ index[1].variant = "flat"

\* C9 (the claim as stated): load_index succeeds only on two present, readable
\* files that agree (as many mapping entries as vectors, the same dimension), and
\* a load_index that finds a file missing or unreadable fails.
FilesAgree ==
    /\ index_file.state = "ok"
    /\ mapping_file.state = "ok"
    /\ index_file.data.ntotal = Len(mapping_file.data.id_mapping)
    /\ Some(index_file.data.d) = mapping_file.data.dimension

C9_LoadNeedsConsistentFiles ==
    op.name = "load_index" =>
        /\ ret = TRUE => FilesAgree
        /\ (index_file.state # "ok" \/ mapping_file.state # "ok") =>
               (ret = FALSE /\ (index = None <=> DOMAIN id_mapping = {}))

\* C10 (the claim as stated): after a load_index that reports failure the
\* in-memory state is "no index".
C10_FailedLoadResets ==
    (op.name = "load_index" /\ ret = FALSE) =>
        (index = None /\ DOMAIN id_mapping = {} /\ dimension = None)

\* C11 (the claim as stated): a search that found no index in memory and could not
\* load one hands its caller something that differs from the empty list a search
\* on a loaded index returns when nothing matched.
C11_UnavailableIsSignalled ==
    (op.name = "search" /\ op.lazy_load /\ log = "index_not_loaded") => ret # <<>>

\* C12 (the claim as stated): a search whose query has another length than the
\* loaded index's dimension hands its caller something other than the ordinary
\* empty result.
C12_QueryMismatchSurfaced ==
    (op.name = "search" /\ index # None /\ Len(op.query) # index[1].d) => ret # <<>>

\* C13 (the claim as stated): the results of a search are in descending score
\* order and their ranks are 1, 2, ..., n.
C13_RanksAfterFiltering ==
    op.name = "search" =>
        \A j \in 1..Len(ret) :
            /\ ret[j].rank = j
            /\ j > 1 => ret[j - 1].similarity_score >= ret[j].similarity_score

\* the store resolves the sentence id: the sentence row and its document row exist
Resolves(sentence_id) ==
    \E s \in sentences : s.id = sentence_id /\ \E d \in documents : d.id = s.document_id

\* the search just made ran on a loaded index that can answer the query
SearchRan ==
    /\ op.name = "search"
    /\ index # None
    /\ Len(op.query) = index[1].d
    /\ ~(index[1].variant = "ivf" /\ index[1].nlist = 0)

\* the positions of the raw hits of the search just made that pass the sentinel,
\* threshold and mapping tests
Candidates ==
    LET raw == NativeSearch(index[1], op.query, op.k)
    IN  {i \in 1..Len(raw) : /\ raw[i].idx # -1
                             /\ raw[i].score >= op.threshold
                             /\ raw[i].idx \in DOMAIN id_mapping}

\* C14: a search on an index that maps ordinals to sentence ids the store no longer
\* resolves leaves out exactly those hits, returns every other hit, and does not fail.
C14_DriftDropsOnlyUnresolved ==
    SearchRan =>
        LET raw == NativeSearch(index[1], op.query, op.k)
            kept == {i \in Candidates : Resolves(id_mapping[raw[i].idx])}
        IN  /\ log = ""
            /\ Len(ret) = Cardinality(kept)
            /\ {ret[j].id : j \in 1..Len(ret)} = {id_mapping[raw[i].idx] : i \in kept}

\* of two hits, one was dropped because its sentence has no document and the other
\* was returned
C14_Witness ==
    /\ SearchRan
    /\ Len(ret) = 1
    /\ Cardinality(Candidates) = 2

\* the sentence ids in a result list
ResultIds(results) == {results[j].id : j \in 1..Len(results)}

\* C15: on the same index, store, query and k, a search with a higher threshold
\* returns a subset of the sentences a search with a lower threshold returns.
C15_ThresholdMonotone ==
    (op.name = "search" /\ index # None) =>
        \A t \in Thresholds, e \in BOOLEAN :
            LET other == SearchOutcome(LazyLoad, op.query, op.k, t, e).ret
            IN  /\ t > op.threshold => ResultIds(other) \subseteq ResultIds(ret)
                /\ t < op.threshold => ResultIds(ret) \subseteq ResultIds(other)

\* a search with threshold 0 returned two sentences of which threshold 1 keeps one
C15_Witness ==
    /\ op.name = "search"
    /\ index # None
    /\ op.threshold = 0
    /\ Len(ret) = 2
    /\ Len(SearchOutcome(LazyLoad, op.query, op.k, 1, FALSE).ret) = 1

\* ordinal o is a better hit than ordinal p for the query of the search just made
\* on the flat index: higher inner product, or the same and inserted earlier
Better(o, p) ==
    LET ip(x) == InnerProduct(op.query, index[1].codes[x])
    IN  ip(o) > ip(p) \/ (ip(o) = ip(p) /\ o < p)

C17_ScoreIsInnerProduct ==
    SearchRan =>
        LET ip(o) == InnerProduct(op.query, index[1].codes[o])
            raw == NativeSearch(index[1], op.query, op.k)
        IN  /\ \A j \in 1..Len(ret) :
                   /\ \E o \in DOMAIN id_mapping :
                          id_mapping[o] = ret[j].id /\ ret[j].similarity_score = ip(o)
                   /\ j > 1 => ret[j - 1].similarity_score >= ret[j].similarity_score
            /\ \A i \in 1..Len(raw) :
                   (/\ raw[i].idx \in DOMAIN id_mapping
                    /\ Resolves(id_mapping[raw[i].idx])
                    /\ ip(raw[i].idx) >= op.threshold)
                       => id_mapping[raw[i].idx] \in ResultIds(ret)

\* C18 (the claim as stated): a build of the ivf variant over N >= 1 vectors uses
\* max(1, min(100, N div 10)) lists and leaves all N vectors searchable.
C18_IvfListCount ==
    (op.name = "build_index" /\ ret = TRUE /\ index[1].variant = "ivf") =>
        LET n == Len(AllEmbeddings)
            lists == IF Min(100, n \div 10) < 1 THEN 1 ELSE Min(100, n \div 10)
        IN  /\ index[1].nlist = lists
            /\ DOMAIN index[1].codes = 0..(n - 1)

\* C19: a build_index over a store whose embeddings differ in length reports
\* failure and leaves the in-memory index, id_mapping and dimension and both
\* files as they were.
C19_MixedLengthBuildFails ==
    [][(op'.name = "build_index" /\ AllEmbeddings # <<>> /\ ~SameLength(AllEmbeddings)) =>
           (/\ ret' = FALSE
            /\ log' = "build_failed"
            /\ UNCHANGED <<index_vars, disk_vars>>)]_vars

\* a build_index over embeddings of lengths 2 and 1 failed and the index built
\* before is still in memory
C19_Witness ==
    /\ op.name = "build_index"
    /\ AllEmbeddings # <<>>
    /\ ~(\A i, j \in 1..Len(AllEmbeddings) :
             Len(AllEmbeddings[i].embedding) = Len(AllEmbeddings[j].embedding))
    /\ ret = FALSE
    /\ index # None

\* C20: get_index_stats returns the vector count, dimension, variant and mapping
\* size of the index in memory, loading it first as search does when there is
\* none, and returns an empty dict when no index can be loaded.
C20_IndexStats ==
    op.name = "get_index_stats" =>
        /\ index = None =>
               (/\ DOMAIN ret = {}
                /\ op.lazy_load
                /\ index_file.state # "ok" \/ mapping_file.state # "ok")
        /\ index # None =>
               /\ ret.total_vectors = index[1].ntotal
               /\ ret.dimension = dimension
               /\ ret.mapping_size = Cardinality(DOMAIN id_mapping)
               /\ ret.index_type = "IndexFlatIP" <=> index[1].variant = "flat"
               /\ ret.index_type = "IndexIVFFlat" <=> index[1].variant = "ivf"

\* get_index_stats loaded the saved index of two vectors into an instance that held none
C20_Witness ==
    /\ op.name = "get_index_stats"
    /\ op.lazy_load
    /\ index # None
    /\ ret.total_vectors = 2
    /\ ret.mapping_size = 2

\* get_index_stats found no index to load and returned the empty dict
C20_WitnessEmpty ==
    /\ op.name = "get_index_stats"
    /\ op.lazy_load
    /\ index = None
    /\ DOMAIN ret = {}

\* the rows an ingestion step adds to the sentences table
Added == sentences' \ sentences

\* the positions process_file is to store: those of batches whose encoding did not
\* fail, up to the first insert of the batch that failed
ToStore(n, batch_size, enc_fail, ins_fail) ==
    {p \in 0..(n - 1) :
        /\ (p - (p % batch_size)) \notin enc_fail
        /\ ~\E q \in ins_fail : (p - (p % batch_size)) <= q /\ q <= p}

\* C21: process_file stores no sentence of a batch whose encoding failed, stores
\* the sentences of every other batch, and gives each stored sentence its 0-based
\* index in the extracted sentence list as position.
C21_FailedBatchSkipped ==
    [][(op'.name = "process_file" /\ ~op'.raised) =>
           LET kept == ToStore(op'.n, op'.batch_size, op'.enc_fail, op'.ins_fail)
           IN  /\ {r.sentence_index : r \in Added} = kept
               /\ Cardinality(Added) = Cardinality(kept)
               /\ \A r \in Added : r.sentence_text = SentenceText(r.sentence_index + 1)]_vars

\* of three sentences in batches of two, the first batch failed to encode and the
\* third sentence was stored at position 2
C21_Witness ==
    /\ op.name = "process_file"
    /\ ~op.raised
    /\ op.n = 3
    /\ op.enc_fail = {0}
    /\ ret = Some(1)
    /\ \E r \in sentences : r.sentence_index = 2 /\ r.sentence_text = "c"

\* C22: process_file returns the number of rows it added to the store, whatever
\* failed; process_directory returns one entry per matched file holding the count
\* of that file's (last) processing, 0 for a file whose processing raised, and
\* processes every file after one that raised.
C22_CountsAreRowsAdded ==
    [][/\ op'.name = "process_file" =>
              IF op'.raised THEN Added = {}
              ELSE ret' = Some(Cardinality(Added))
       /\ op'.name = "process_directory" =>
              LET files == op'.files
                  calls == op'.calls
              IN  /\ Len(calls) = Len(files)
                  /\ DOMAIN ret' = {files[k] : k \in 1..Len(files)}
                  /\ \A k \in 1..Len(files) :
                         /\ calls[k].file_path = files[k]
                         /\ (\A m \in (k + 1)..Len(files) : files[m] # files[k]) =>
                                ret'[files[k]] = Cardinality({r \in Added : r.id \in calls[k].ids})]_vars

\* a directory run whose first file raised and whose second file was stored
C22_Witness ==
    /\ op.name = "process_directory"
    /\ Len(op.files) = 2
    /\ op.calls[1].raised
    /\ ~op.calls[2].raised
    /\ ret[op.files[1]] = 0
    /\ ret[op.files[2]] = 1

\* C23 (the claim as stated): no two sentences of one document have the same position.
C23_PositionsUniquePerDocument ==
    \A r1, r2 \in sentences :
        (r1.document_id = r2.document_id /\ r1.sentence_index = r2.sentence_index) => r1 = r2

\* C24 (the claim as stated): every sentence refers to a document that exists.
C24_SentenceHasDocument ==
    \A r \in sentences : \E d \in documents : d.id = r.document_id

\* C25: when two add_document calls with the same path have both returned, one
\* document record has that path and both calls returned its id.
C25_ConcurrentAddDocument ==
    \A t, u \in Callers :
        (/\ t # u
         /\ threads.add[t].pc = "done"
         /\ threads.add[u].pc = "done"
         /\ threads.add[t].file_path = threads.add[u].file_path) =>
            LET rows == {d \in documents : d.file_path = threads.add[t].file_path}
            IN  /\ Cardinality(rows) = 1
                /\ \A d \in rows : threads.add[t].ret = d.id /\ threads.add[u].ret = d.id

\* two overlapping calls with one path: the first inserted the row, the second
\* met the conflict and read the id
C25_Witness ==
    /\ threads.add[1].pc = "done"
    /\ threads.add[2].pc = "done"
    /\ threads.add[1].file_path = threads.add[2].file_path
    /\ threads.add[2].overlap
    /\ ~threads.add[1].conflict
    /\ threads.add[2].conflict

\* the instance held a complete, non-empty index when the build under way began
PreviousComplete ==
    LET prev == threads.build.prev
    IN  IF prev.index = None THEN FALSE
        ELSE /\ prev.index[1].ntotal > 0
             /\ Cardinality(DOMAIN prev.id_mapping) = prev.index[1].ntotal

\* C26 (the claim as stated): a search that runs while a build_index or
\* rebuild_index is under way on an instance that held a complete index uses that
\* index with its mapping or the complete new index with its mapping, and never
\* finds the index cleared.
C26_SearchSeesCompleteIndex ==
    (op.name = "search" /\ InFlight /\ PreviousComplete) =>
        LET b == threads.build
        IN  \/ /\ index = b.prev.index
               /\ id_mapping = b.prev.id_mapping
            \/ /\ b.pc = "save"
               /\ index = Some(NewIndex(b.index_type, dimension[1], b.matrix))
               /\ id_mapping = EnumerateIds(b.sentence_ids)

\* C27 (the claim as stated): right after a build_index or rebuild_index on an
\* instance that held a complete index was interrupted, the in-memory index and
\* mapping and both files are as they were before the call.
C27_InterruptKeepsPrevious ==
    (op.name = "build_interrupt" /\ PreviousComplete) =>
        LET prev == threads.build.prev
        IN  /\ index = prev.index
            /\ id_mapping = prev.id_mapping
            /\ index_file = prev.index_file
            /\ mapping_file = prev.mapping_file

\* C28 (the claim as stated): a load_index that succeeds leaves as many mapping
\* entries as the loaded index has vectors, also when the two files on disk come
\* from different saves.
C28_LoadedMappingFitsIndex ==
    (op.name = "load_index" /\ ret = TRUE) =>
        Cardinality(DOMAIN id_mapping) = index[1].ntotal

\* C29 (the claim as stated): a build_index that reports success has written both
\* files, and they hold the index and mapping it built.
C29_SaveFailurePropagates ==
    (op.name = "build_index" /\ ret = TRUE) =>
        /\ index_file = File(WriteIndex(index[1]))
        /\ mapping_file = File(PickleDump(id_mapping, dimension))

\* C30: on a recoverable input error the engine returns its failure value and
\* does not raise: search with a query of the wrong length or with no index
\* available returns [], get_index_stats with no index available returns {},
\* build_index and rebuild_index on an empty store and add_vectors without an
\* index return False.
C30_NoRaiseOnInputError ==
    /\ (op.name = "search" /\ (index = None \/ Len(op.query) # index[1].d)) =>
           (~op.raised /\ ret = <<>>)
    /\ (op.name = "get_index_stats" /\ index = None) => DOMAIN ret = {}
    /\ (op.name \in Builds /\ AllEmbeddings = <<>>) => ret = FALSE
    /\ (op.name = "add_vectors" /\ index = None) => ret = FALSE

\* a search with a query of length 1 on a loaded index of dimension 2 returned []
C30_Witness ==
    /\ op.name = "search"
    /\ index # None
    /\ index[1].d = 2
    /\ Len(op.query) = 1
    /\ ~op.raised
    /\ ret = <<>>
    /\ log = "search_failed"

\* C31: every result of a search stands for a raw hit whose ordinal is not the
\* sentinel -1 and is a key of id_mapping, carries that hit's score, which is at
\* least the threshold, and names the sentence id_mapping gives for the ordinal;
\* a search returns at most min(k, vectors in the index) results.  A sentinel hit
\* is dropped whatever its score (under the L2 metric it is above every threshold).
C31_ResultsAreValidHits ==
    (op.name = "search" /\ index # None /\ Len(op.query) = index[1].d) =>
        LET raw == NativeSearch(index[1], op.query, op.k)
        IN  /\ Len(ret) <= Min(op.k, index[1].ntotal)
            /\ \A j \in 1..Len(ret) :
                   LET r == ret[j].rank
                   IN  /\ r \in 1..Len(raw)
                       /\ raw[r].idx # -1
                       /\ raw[r].idx \in DOMAIN id_mapping
                       /\ id_mapping[raw[r].idx] = ret[j].id
                       /\ ret[j].similarity_score = raw[r].score
                       /\ raw[r].score >= op.threshold

\* a search for two hits on a flat index of one vector returned the one real hit,
\* the sentinel beside it dropped
C31_Witness ==
    /\ op.name = "search"
    /\ index # None
    /\ index[1].variant = "flat"
    /\ index[1].ntotal = 1
    /\ Len(op.query) = 2
    /\ op.k = 2
    /\ Len(ret) = 1
    /\ NativeSearch(index[1], op.query, op.k)[2].idx = -1

\* a search on an ivf index without inverted lists got sentinels only, each with
\* a distance above the threshold, and returned nothing
C31_WitnessSentinelAboveThreshold ==
    /\ op.name = "search"
    /\ index # None
    /\ index[1].variant = "ivf"
    /\ Len(op.query) = index[1].d
    /\ log = ""
    /\ ret = <<>>
    /\ \A i \in 1..op.k :
           LET h == NativeSearch(index[1], op.query, op.k)[i]
           IN  h.idx = -1 /\ h.score >= op.threshold

\* C32: an add_vectors that takes m sentence ids and m vectors on an index of n
\* vectors leaves the index with n + m vectors, maps the ordinals n..n+m-1 to the
\* given ids in order (a flat index stores the given vectors there), leaves the
\* entries of the ordinals below n as they were, and, unless save_index logged a
\* failure, leaves two files from which load_index reads that index and mapping.
C32_AddVectorsExtends ==
    [][(op'.name = "add_vectors" /\ ret' = TRUE
            /\ Len(op'.sentence_ids) = Len(op'.embeddings)) =>
          LET n == index[1].ntotal
              m == Len(op'.sentence_ids)
          IN  /\ index'[1].ntotal = n + m
              /\ \A i \in 0..(m - 1) :
                     /\ (n + i) \in DOMAIN id_mapping'
                     /\ id_mapping'[n + i] = op'.sentence_ids[i + 1]
                     /\ index[1].variant = "flat" =>
                            index'[1].codes[n + i] = op'.embeddings[i + 1]
              /\ \A o \in DOMAIN id_mapping :
                     o < n => (o \in DOMAIN id_mapping' /\ id_mapping'[o] = id_mapping[o])
              /\ \A o \in DOMAIN index[1].codes : index'[1].codes[o] = index[1].codes[o]
              /\ log' = "" =>
                     /\ index_file'.state = "ok"
                     /\ mapping_file'.state = "ok"
                     /\ Some(ReadIndex(index_file'.data)) = index'
                     /\ PickleLoadMapping(mapping_file'.data) = id_mapping'
                     /\ mapping_file'.data.dimension = dimension'
      ]_vars

\* add_vectors took two ids and two vectors on a flat index of one vector and
\* saved the three-vector index
C32_Witness ==
    /\ op.name = "add_vectors"
    /\ ret = TRUE
    /\ log = ""
    /\ Len(op.sentence_ids) = 2
    /\ Len(op.embeddings) = 2
    /\ index[1].variant = "flat"
    /\ index[1].ntotal = 3
    /\ id_mapping[1] = 1
    /\ id_mapping[2] = 2
    /\ PickleLoadMapping(mapping_file.data) = id_mapping

\* C33 (the claim as stated): whenever an index is in memory, id_mapping is
\* defined on exactly the ordinals 0..ntotal-1 and dimension is the index's
\* dimension.
C33_MappingFitsIndex ==
    index # None =>
        /\ DOMAIN id_mapping = 0..(index[1].ntotal - 1)
        /\ dimension = Some(index[1].d)

\* C36: an add_vectors that returns False leaves the in-memory index, id_mapping
\* and dimension and both files as they were; without an index in memory it does
\* not load one, also when both files are on disk.
C36_FailedAddChangesNothing ==
    [][(op'.name = "add_vectors" /\ ret' = FALSE) =>
          /\ index' = index
          /\ id_mapping' = id_mapping
          /\ dimension' = dimension
          /\ index_file' = index_file
          /\ mapping_file' = mapping_file
          /\ log' = IF index = None THEN "index_not_initialized" ELSE "add_failed"
      ]_vars

\* add_vectors was given a row of one value on an index of dimension 2 and failed
C36_Witness ==
    /\ op.name = "add_vectors"
    /\ ret = FALSE
    /\ log = "add_failed"
    /\ index # None
    /\ index[1].d = 2
    /\ index[1].ntotal >= 1
    /\ Len(op.embeddings[1]) = 1

\* add_vectors failed on an instance without an index while both files were on disk
C36_WitnessNoLoad ==
    /\ op.name = "add_vectors"
    /\ ret = FALSE
    /\ index = None
    /\ index_file.state = "ok"
    /\ mapping_file.state = "ok"

\* C34: every result of a search names a sentence the index holds (an id of
\* id_mapping) whose stored embedding is the vector the index holds at the hit's
\* ordinal; when none of the indexed sentences is in the store any more, as after
\* clear_database and new ingestion without a rebuild, the search returns nothing.
C34_StaleIndexNeverMisattributes ==
    (op.name = "search" /\ index # None /\ Len(op.query) = index[1].d) =>
        LET raw == NativeSearch(index[1], op.query, op.k)
        IN  /\ \A j \in 1..Len(ret) :
                   LET o == raw[ret[j].rank].idx
                   IN  /\ o \in DOMAIN id_mapping
                       /\ id_mapping[o] = ret[j].id
                       /\ \E s \in sentences :
                              /\ s.id = ret[j].id
                              /\ s.embedding = Some(tobytes(index[1].codes[o]))
            /\ (\A o \in DOMAIN id_mapping : id_mapping[o] \notin EmbeddedIds) => ret = <<>>

\* the index was built over sentence 1, the store was cleared and took sentence 2
\* with the same vector under a new document; a search for that vector on the
\* index still in memory returned nothing
C34_Witness ==
    /\ op.name = "search"
    /\ ~op.lazy_load
    /\ index # None
    /\ index[1].variant = "flat"
    /\ DOMAIN id_mapping = {0}
    /\ id_mapping[0] = 1
    /\ EmbeddedIds = {2}
    /\ Resolves(2)
    /\ op.query = index[1].codes[0]
    /\ op.threshold = 0
    /\ \E s \in sentences : s.embedding = Some(tobytes(op.query))
    /\ ret = <<>>
    /\ log = ""

\* C35: a search on an instance without an index reads the two files whenever
\* both are there, also right after a lazy load that found none, and answers from
\* what it read; a search on an instance that holds an index leaves the index,
\* mapping and dimension as they are and answers from them, whatever the files
\* hold by then.
C35_LazyLoadRetriesThenStays ==
    [][op'.name = "search" =>
          /\ (index = None /\ index_file.state = "ok" /\ mapping_file.state = "ok") =>
                 /\ index' = Some(ReadIndex(index_file.data))
                 /\ id_mapping' = PickleLoadMapping(mapping_file.data)
                 /\ dimension' = mapping_file.data.dimension
          /\ index # None =>
                 /\ ~op'.lazy_load
                 /\ index' = index
                 /\ id_mapping' = id_mapping
                 /\ dimension' = dimension
          /\ (index' # None /\ Len(op'.query) = index'[1].d) =>
                 ret' = Hits(NativeSearch(index'[1], op'.query, op'.k), 1,
                             id_mapping', op'.threshold)
      ]_vars

\* the search before this one found no files; another process then built the
\* index, and this search loaded it and returned a hit
C35_Witness ==
    /\ op.name = "search"
    /\ op.retried_load
    /\ op.lazy_load
    /\ index # None
    /\ Len(ret) >= 1

\* a search answered from the one-vector index in memory while the files held a
\* two-vector index written since
C35_WitnessNoReload ==
    /\ op.name = "search"
    /\ ~op.lazy_load
    /\ index # None
    /\ index[1].ntotal = 1
    /\ index_file.state = "ok"
    /\ index_file.data.ntotal = 2
    /\ Len(ret) = 1

====
